---- MODULE Spec2Model ----
(***************************************************************************)
(* The codespace control panel of src/app/page.tsx: the Home component's   *)
(* state, the asynchronous status check (checkCodespaceStatus), the start  *)
(* operation (startCodespace), the mount effect with its 30-second timer,  *)
(* and the conditions under which the rendered view offers its actions.    *)
(*                                                                         *)
(* An asynchronous function is one process whose program counter names the *)
(* request it is suspended at, and one action runs its code from one       *)
(* request to the next. A response's body is read (response.json(),        *)
(* response.text()) right after the response, with no write to the state   *)
(* between the two awaits, so a request and the reading of its response    *)
(* settle in one action.                                                   *)
(* The remote API is the environment: what a request returns (a network    *)
(* fault, a non-ok response, a list of codespaces) is chosen with \E.      *)
(***************************************************************************)
EXTENDS Integers, Sequences, FiniteSets, TLC

\* ---------------------------------------------------------------- constants

\* page.tsx:33
FLASK_PORT == 8080

\* page.tsx:37
REPO_NAME == "Fake-Text-Story"

\* page.tsx:140 and 173: the poll loop's limit
MaxAttempts == 30

\* page.tsx:17-25: the declared members of type CodespaceStatus
CodespaceStatus ==
  {"checking", "running", "stopped", "starting", "not_found",
   "app_not_running", "error", "no_token"}

\* ------------------------------------------------------------------- bounds

\* Timer-driven invocations of checkCodespaceStatus (the mount-time one and the
\* interval's) that may be in flight at once.
MaxTimerChecks == 1

\* The longest list response of the fixed-list specification.
MaxList == 2

\* ---------------------------------------------------- the remote environment

\* The codespaces the account may hold: each has its own id and name.
Sandboxes == {"cs1", "cs2"}

IdOf(n) == "id-" \o n

\* Lifecycle states the API may report: one the panel probes, one the tag set
\* knows, one it does not know.
RawStates == {"running", "stopped", "Shutdown"}

RepoNames == {REPO_NAME, "other-repo"}

\* page.tsx:10-15: interface Codespace
Codespace ==
  {[id |-> IdOf(n), name |-> n, state |-> s, repository |-> [name |-> r]] :
     n \in Sandboxes, s \in RawStates, r \in RepoNames}

\* Every sequence of at most n codespaces.
ListsUpTo(n) == UNION {[1..k -> Codespace] : k \in 0..n}

\* The bodies of a successful list response when the remote API is free to answer
\* anything: no codespace or one. What the check does with a list depends on the
\* list through find alone, which these lists take to each of its results;
\* longer lists, and the order within them, are the fixed-list specification's.
ListResponses == {<< >>} \cup {<<a>> : a \in Codespace}

\* How an awaited request or body read ends: the promise rejects, or it resolves
\* with a response whose ok flag is false or true.
Outcomes == {"throws", "nonok", "ok"}

\* ------------------------------------------------------------------ helpers

NoCodespace == [id |-> "", name |-> "", state |-> "", repository |-> [name |-> ""]]

\* find, were it to return the last element that satisfies the predicate.
find_Last(codespaces) ==
  LET M == {i \in 1..Len(codespaces) : codespaces[i].repository.name = REPO_NAME}
  IN IF M = {} THEN NoCodespace
     ELSE codespaces[CHOOSE i \in M : \A j \in M : j <= i]

\* page.tsx:69: Array.prototype.find with the repository-name predicate:
\* the first element in list order that satisfies it, or undefined.
RECURSIVE find(_)
find(codespaces) ==
  IF codespaces = << >> THEN NoCodespace
  ELSE IF Head(codespaces).repository.name = REPO_NAME THEN Head(codespaces)
  ELSE find(Tail(codespaces))

\* The URL, were the port left out of the host name.
UrlOf_NoPort(name) == "https://" \o name \o ".app.github.dev"

\* page.tsx:81: the template literal that derives the application's URL
UrlOf(name) == "https://" \o name \o "-" \o ToString(FLASK_PORT) \o ".app.github.dev"

\* The cast, were it to coerce a tag the type does not declare.
AsCodespaceStatus_Coerced(state) == IF state \in CodespaceStatus THEN state ELSE "error"

\* page.tsx:99: `codespace.state as CodespaceStatus`: a compile-time cast, which
\* leaves the value as it is at run time.
AsCodespaceStatus(state) == state

\* Check invocations: 0 is the one the Starter awaits, 1.. are the timer-driven ones.
StarterCheck == 0
TimerChecks == 1..MaxTimerChecks
Checks == {StarterCheck} \cup TimerChecks

VARIABLES
  GITHUB_TOKEN,  \* page.tsx:36: whether the credential is configured
  remote,        \* the remote API: free to answer any list, or holding one list
  tracked,       \* whether the behaviour records which invocation overtakes which
  status,        \* page.tsx:28
  codespaceUrl,  \* page.tsx:29
  isStarting,    \* page.tsx:30
  isLoading,     \* page.tsx:31
  codespaceId,   \* page.tsx:32
  mounted,       \* "no": before the effect ran, "yes", "gone": after teardown
  cpc,           \* per check invocation: the await it is suspended at
  spc,           \* the Starter's position
  sStatus,       \* the status value the running startCodespace closure captured
  attempts,      \* page.tsx:139
  sent,          \* the network requests the last action issued
  ev,            \* the last action taken
  sawRunning,    \* a poll check of the current/last Starter run set status running
  polls,         \* check invocations made by the current/last Starter run
  waits,         \* 2-second waits started by the current/last Starter run
  consoles,      \* console requests issued by the current/last Starter run
  order,         \* the check invocations in flight, in the order they started
  behind,        \* <<c, d>>: c started before d and read its list before d did
  late           \* invocations in flight that a later one has overtaken: it
                 \* started after them, read its list after them, and is over

vars ==
  <<GITHUB_TOKEN, remote, tracked, status, codespaceUrl, isStarting, isLoading, codespaceId, mounted,
    cpc, spc, sStatus, attempts, sent, ev, sawRunning, polls, waits, consoles,
    order, behind, late>>

config == <<GITHUB_TOKEN, remote, tracked>>
react == <<status, codespaceUrl, isStarting, isLoading, codespaceId>>
starter == <<spc, sStatus, attempts>>
ghosts == <<sawRunning, polls, waits, consoles>>
race == <<order, behind, late>>

\* The last action: what happened, in which check invocation (-1: none), the
\* codespace it found (page.tsx:77), and whether the invocation had been
\* overtaken when it took the step.
Ev(op, c) == [op |-> op, c |-> c, cs |-> NoCodespace, stale |-> c \in late]
Found(c, codespace) == [op |-> "found", c |-> c, cs |-> codespace, stale |-> c \in late]

\* The remote API answers a list request with any of ListResponses.
AnyList == [fixed |-> FALSE, list |-> << >>]

\* page.tsx:28-32: the useState initial values, before the mount effect has run
Unmounted(t) ==
  /\ GITHUB_TOKEN \in BOOLEAN
  /\ remote = AnyList
  /\ tracked = t
  /\ status = "checking"
  /\ codespaceUrl = ""
  /\ isStarting = FALSE
  /\ isLoading = TRUE
  /\ codespaceId = ""
  /\ mounted = "no"
  /\ cpc = [c \in Checks |-> "idle"]
  /\ spc = "idle"
  /\ sStatus = ""
  /\ attempts = 0
  /\ sent = {}
  /\ late = {}
  /\ behind = {}
  /\ order = << >>
  /\ ev = Ev("init", -1)
  /\ sawRunning = FALSE
  /\ polls = 0
  /\ waits = 0
  /\ consoles = 0

Init == Unmounted(FALSE)

\* ============================================================ StatusChecker

\* The place of the invocation c among those in flight.
Pos(c) == CHOOSE i \in 1..Len(order) : order[i] = c

\* The invocations that started before c and hold a list read before c's, as c
\* reads its own.
Older(c) == {x \in Checks \ {c} : cpc[x] = "health" /\ Pos(x) < Pos(c)}

\* The invocations c overtakes as it ends.
Overtaken(c) ==
  IF cpc[c] = "list" THEN Older(c) ELSE {x \in Checks : <<x, c>> \in behind}

\* The invocation c is over.
Leaves(c) ==
  IF tracked
  THEN /\ late' = (late \cup Overtaken(c)) \ {c}
       /\ order' = SelectSeq(order, LAMBDA x : x # c)
       /\ behind' = {p \in behind : p[1] # c /\ p[2] # c}
  ELSE UNCHANGED race

\* The end of an invocation, were a generation token to keep an overtaken
\* invocation from writing its status.
Finish_Guarded(c, st) ==
  /\ status' = IF c \in late THEN status ELSE st
  /\ isLoading' = FALSE
  /\ cpc' = [cpc EXCEPT ![c] = "idle"]
  /\ sawRunning' = (sawRunning \/ (c = StarterCheck /\ st = "running"))
  /\ Leaves(c)

\* page.tsx:105-107 after a setStatus: a path of checkCodespaceStatus that ends
\* the invocation c with the status st; the finally block clears the loading flag.
Finish(c, st) ==
  /\ status' = st
  /\ isLoading' = FALSE
  /\ cpc' = [cpc EXCEPT ![c] = "idle"]
  /\ sawRunning' = (sawRunning \/ (c = StarterCheck /\ st = "running"))
  /\ Leaves(c)

\* The prefix, were the credential not tested before the request.
checkCodespaceStatus_NoTokenTest(c) ==
  /\ isLoading' = TRUE
  /\ cpc' = [cpc EXCEPT ![c] = "list"]
  /\ sent' = {"list"}
  /\ order' = IF tracked THEN Append(order, c) ELSE order
  /\ UNCHANGED <<status, behind, late>>

\* page.tsx:39-57: the synchronous prefix of an invocation c, up to the first
\* await: without the credential the whole invocation runs here.
checkCodespaceStatus(c) ==
  IF ~GITHUB_TOKEN
  THEN /\ status' = "no_token"
       /\ isLoading' = FALSE
       /\ sent' = {}
       /\ UNCHANGED <<cpc, race>>
  ELSE /\ isLoading' = TRUE
       /\ cpc' = [cpc EXCEPT ![c] = "list"]
       /\ sent' = {"list"}
       /\ order' = IF tracked THEN Append(order, c) ELSE order
       /\ UNCHANGED <<status, behind, late>>

\* The catch block, were it to log the error and leave the status as it is.
Caught_StatusKept(c) == Finish(c, status)

\* page.tsx:102-107: the catch block of checkCodespaceStatus, then its finally
Caught(c) == Finish(c, "error")

\* page.tsx:49-66 and 102-104: the list request does not yield a list: the fetch
\* rejects ("throws"), the response is not ok ("nonok": its text is read, 60-63),
\* or the body does not parse or an element is malformed ("json").
ListFails(c) ==
  /\ cpc[c] = "list"
  /\ \E o \in {"throws", "nonok", "json"} : ev' = Ev("list-" \o o, c)
  /\ Caught(c)
  /\ sent' = {}
  /\ UNCHANGED <<config, codespaceUrl, isStarting, codespaceId, mounted,
                 starter, polls, waits, consoles>>

\* The same, were a list without the target's sandbox to clear what was recorded.
Json_ResetOnMiss(c, codespaces) ==
  LET codespace == find(codespaces) IN
  /\ cpc[c] = "list"
  /\ IF codespace = NoCodespace
     THEN \* 71-75
          /\ ev' = Ev("no-match", c)
          /\ Finish(c, "not_found")
          /\ sent' = {}
          /\ codespaceId' = ""
          /\ codespaceUrl' = ""
     ELSE /\ codespaceId' = codespace.id                      \* 78
          /\ IF codespace.state = "running"
             THEN \* 80-86
                  /\ ev' = Found(c, codespace)
                  /\ codespaceUrl' = UrlOf(codespace.name)
                  /\ sent' = {"health"}
                  /\ cpc' = [cpc EXCEPT ![c] = "health"]
                  /\ behind' = IF tracked THEN behind \cup {<<x, c>> : x \in Older(c)}
                                           ELSE behind
                  /\ UNCHANGED <<status, isLoading, sawRunning, order, late>>
             ELSE \* 98-100
                  /\ ev' = Found(c, codespace)
                  /\ Finish(c, AsCodespaceStatus(codespace.state))
                  /\ sent' = {}
                  /\ UNCHANGED codespaceUrl
  /\ UNCHANGED <<config, isStarting, mounted, starter, polls, waits, consoles>>

\* page.tsx:66-100: the list request is answered ok and response.json() resolves
\* with the list codespaces.
Json(c, codespaces) ==
  LET codespace == find(codespaces) IN
  /\ cpc[c] = "list"
  /\ IF codespace = NoCodespace
     THEN \* 71-75
          /\ ev' = Ev("no-match", c)
          /\ Finish(c, "not_found")
          /\ sent' = {}
          /\ UNCHANGED <<codespaceId, codespaceUrl>>
     ELSE /\ codespaceId' = codespace.id                      \* 78
          /\ IF codespace.state = "running"
             THEN \* 80-86
                  /\ ev' = Found(c, codespace)
                  /\ codespaceUrl' = UrlOf(codespace.name)
                  /\ sent' = {"health"}
                  /\ cpc' = [cpc EXCEPT ![c] = "health"]
                  /\ behind' = IF tracked THEN behind \cup {<<x, c>> : x \in Older(c)}
                                           ELSE behind
                  /\ UNCHANGED <<status, isLoading, sawRunning, order, late>>
             ELSE \* 98-100
                  /\ ev' = Found(c, codespace)
                  /\ Finish(c, AsCodespaceStatus(codespace.state))
                  /\ sent' = {}
                  /\ UNCHANGED codespaceUrl
  /\ UNCHANGED <<config, isStarting, mounted, starter, polls, waits, consoles>>

ListReturns(c) ==
  \E codespaces \in (IF remote.fixed THEN {remote.list} ELSE ListResponses) :
    Json(c, codespaces)

\* page.tsx:86-97: the health probe settles: ok (87-90), not ok (92-93, its text
\* read), or rejected (94-96).
HealthResponse(c) ==
  /\ cpc[c] = "health"
  /\ \E o \in Outcomes :
       /\ ev' = Ev("health-" \o o, c)
       /\ Finish(c, IF o = "ok" THEN "running" ELSE "app_not_running")
  /\ sent' = {}
  /\ UNCHANGED <<config, codespaceUrl, isStarting, codespaceId, mounted,
                 starter, polls, waits, consoles>>

\* ================================================== the mount effect and timer

\* page.tsx:185-191: the effect runs once after the first render: it starts an
\* invocation and sets the interval.
Mount ==
  /\ mounted = "no"
  /\ mounted' = "yes"
  /\ ev' = Ev("mount", 1)
  /\ checkCodespaceStatus(1)
  /\ UNCHANGED <<config, codespaceUrl, isStarting, codespaceId, starter, ghosts>>

\* The interval, were the effect to return no cleanup.
IntervalSet_NoCleanup == mounted # "no"

\* page.tsx:191-192: the interval is set by the effect and cleared by its cleanup
IntervalSet == mounted = "yes"

\* The interval can fire and start a timer-driven invocation.
CanTick == IntervalSet /\ \E c \in TimerChecks : cpc[c] = "idle"

\* page.tsx:191: the interval fires while it is set and starts an invocation, in
\* flight or not the ones before it.
Tick ==
  /\ CanTick
  /\ \E c \in TimerChecks :
       /\ cpc[c] = "idle"
       /\ \A d \in TimerChecks : d < c => cpc[d] # "idle"
       /\ ev' = Ev("tick", c)
       /\ checkCodespaceStatus(c)
  /\ UNCHANGED <<config, codespaceUrl, isStarting, codespaceId, mounted,
                 starter, ghosts>>

\* page.tsx:192: the effect's cleanup on teardown clears the interval; nothing
\* cancels what is in flight.
Unmount ==
  /\ mounted = "yes"
  /\ mounted' = "gone"
  /\ ev' = Ev("unmount", -1)
  /\ sent' = {}
  /\ UNCHANGED <<config, react, cpc, starter, ghosts, race>>

\* ===================================================================== View

\* page.tsx:235-243: neither the loading indicator nor the credential notice
BannerShown == ~isLoading /\ GITHUB_TOKEN

\* page.tsx:249-258
OpenLinkOffered == BannerShown /\ status = "running"

\* The start button, were it rendered beside the loading indicator.
StartOffered_WhileLoading ==
  GITHUB_TOKEN /\ status \in {"stopped", "error", "app_not_running"}

\* page.tsx:260-270: the start button is rendered ...
StartOffered == BannerShown /\ status \in {"stopped", "error", "app_not_running"}

\* The start button, were it never disabled.
StartEnabled_NeverDisabled == StartOffered

\* ... and accepts a click (263: disabled={isStarting})
StartEnabled == StartOffered /\ ~isStarting

\* page.tsx:262: a click reaches onClick: the component is on screen and the
\* button enabled
CanClick == mounted = "yes" /\ StartEnabled

\* ================================================================== Starter

\* The catch block alone, were the finally block missing.
StarterFails_NoFinally ==
  /\ status' = "error"
  /\ spc' = "idle"
  /\ UNCHANGED isStarting

\* page.tsx:177-182: the catch and finally blocks of startCodespace
StarterFails ==
  /\ status' = "error"
  /\ isStarting' = FALSE
  /\ spc' = "idle"

\* page.tsx:173-182 when the loop was left with attempts < 30: only the finally block
StarterReturns ==
  /\ isStarting' = FALSE
  /\ spc' = "idle"
  /\ UNCHANGED status

\* The precondition, were only the credential tested.
Missing_TokenOnly == ~GITHUB_TOKEN

\* page.tsx:112: the precondition of startCodespace fails
Missing == codespaceId = "" \/ ~GITHUB_TOKEN

\* page.tsx:110-128: a click on the start button runs startCodespace, the closure
\* of the render on screen, up to its first await. The closure's `status` and
\* `codespaceId` are that render's values for the whole execution.
startCodespace ==
  /\ CanClick
  /\ sawRunning' = FALSE
  /\ polls' = 0
  /\ waits' = 0
  /\ consoles' = 0
  /\ attempts' = 0
  /\ IF Missing
     THEN \* 112-114, caught at 177
          /\ ev' = Ev("start-refused", -1)
          /\ StarterFails
          /\ sent' = {}
          /\ UNCHANGED sStatus
     ELSE /\ ev' = Ev("start-request", -1)
          /\ isStarting' = TRUE
          /\ sStatus' = status
          /\ spc' = "start"
          /\ sent' = {"start"}
          /\ UNCHANGED status
  /\ UNCHANGED <<config, codespaceUrl, isLoading, codespaceId, mounted, cpc, race>>

\* The loop test, were the timeout at 173-175 missing.
LoopTest_NoTimeout(n) ==
  IF n < MaxAttempts
  THEN /\ spc' = "wait"
       /\ waits' = waits + 1
       /\ UNCHANGED <<status, isStarting>>
  ELSE /\ isStarting' = FALSE
       /\ spc' = "idle"
       /\ UNCHANGED <<status, waits>>

\* page.tsx:140-142: the loop test, then the 2-second wait of the next iteration;
\* 173-175: past the limit, the timeout error.
LoopTest(n) ==
  IF n < MaxAttempts
  THEN /\ spc' = "wait"
       /\ waits' = waits + 1
       /\ UNCHANGED <<status, isStarting>>
  ELSE /\ StarterFails
       /\ UNCHANGED waits

\* The test, were a response that is not ok let through.
StartOk_Unchecked(o) == o # "throws"

\* page.tsx:119-134: the start request resolved with an ok response
StartOk(o) == o = "ok"

\* page.tsx:119-142: the start request settles: rejected or not ok (130-134, its
\* text read), the error is thrown; ok, the loop is entered.
StartResponse ==
  /\ spc = "start"
  /\ \E o \in Outcomes :
       /\ ev' = Ev("start-" \o o, -1)
       /\ IF StartOk(o) THEN LoopTest(attempts) ELSE StarterFails /\ UNCHANGED waits
  /\ sent' = {}
  /\ UNCHANGED <<config, codespaceUrl, isLoading, codespaceId, mounted, cpc,
                 sStatus, attempts, sawRunning, polls, consoles, race>>

\* page.tsx:142-143: the wait is over; the Starter invokes checkCodespaceStatus
\* and awaits it.
WaitOver ==
  /\ spc = "wait"
  /\ spc' = "check"
  /\ polls' = polls + 1
  /\ ev' = Ev("poll", StarterCheck)
  /\ checkCodespaceStatus(StarterCheck)
  /\ UNCHANGED <<config, codespaceUrl, isStarting, codespaceId, mounted,
                 sStatus, attempts, sawRunning, waits, consoles>>

\* page.tsx:145-171: the rest of the loop body, from the return of the awaited
\* check to the next await: the test of the closure's `status`, the console
\* request and its response (ok or not, 163-168: break; rejected: caught at 177),
\* the increment and the loop test.
LoopBody ==
  /\ \/ spc = "check" /\ cpc[StarterCheck] = "idle"
     \/ spc = "console"
  /\ \E o \in Outcomes :
       CASE spc = "check" ->
              IF sStatus = "running"
              THEN \* 145-161
                   /\ ev' = Ev("console-request", -1)
                   /\ spc' = "console"
                   /\ consoles' = consoles + 1
                   /\ sent' = {"console"}
                   /\ UNCHANGED <<status, isStarting, attempts, waits>>
              ELSE \* 170, then 140 or 173
                   /\ ev' = Ev("next-attempt", -1)
                   /\ attempts' = attempts + 1
                   /\ LoopTest(attempts + 1)
                   /\ sent' = {}
                   /\ UNCHANGED consoles
         [] spc = "console" ->
              /\ ev' = Ev("console-" \o o, -1)
              /\ sent' = {}
              /\ IF o = "throws" THEN StarterFails ELSE StarterReturns
              /\ UNCHANGED <<attempts, waits, consoles>>
  /\ UNCHANGED <<config, codespaceUrl, isLoading, codespaceId, mounted, cpc,
                 sStatus, sawRunning, polls, race>>

\* ============================================================ specification

Next ==
  \/ Mount
  \/ Tick
  \/ Unmount
  \/ \E c \in Checks :
       \/ ListFails(c)
       \/ ListReturns(c)
       \/ HealthResponse(c)
  \/ startCodespace
  \/ StartResponse
  \/ WaitOver
  \/ LoopBody

Spec == Init /\ [][Next]_vars

\* The panel against a remote API that holds one list of codespaces: the
\* mount-time check (page.tsx:190) is in flight with its list request, and the
\* check runs to its end.
InitFind ==
  /\ GITHUB_TOKEN = TRUE
  /\ tracked = FALSE
  /\ remote \in {[fixed |-> TRUE, list |-> l] : l \in ListsUpTo(MaxList)}
  /\ status = "checking"
  /\ codespaceUrl = ""
  /\ isStarting = FALSE
  /\ isLoading = TRUE
  /\ codespaceId = ""
  /\ mounted = "yes"
  /\ cpc = [c \in Checks |-> IF c = 1 THEN "list" ELSE "idle"]
  /\ spc = "idle"
  /\ sStatus = ""
  /\ attempts = 0
  /\ sent = {"list"}
  /\ late = {}
  /\ behind = {}
  /\ order = << >>
  /\ ev = Ev("mount", 1)
  /\ sawRunning = FALSE
  /\ polls = 0
  /\ waits = 0
  /\ consoles = 0

NextFind ==
  \/ ListReturns(1)
  \/ HealthResponse(1)

SpecFind == InitFind /\ [][NextFind]_vars

\* The panel with the overtaking of one check invocation by another recorded.
InitRace == Unmounted(TRUE)

SpecRace == InitRace /\ [][Next]_vars

\* =================================================================== claims

NoCheckInFlight == \A c \in Checks : cpc[c] = "idle"

\* C1: without the credential, once the mount-time check has run the status is
\* no_token in every state, no action issues a network request, no check is ever
\* suspended at a request and the Starter never runs.
C1_NoTokenNoNetwork ==
  ~GITHUB_TOKEN =>
    /\ sent = {}
    /\ NoCheckInFlight
    /\ spc = "idle"
    /\ mounted # "no" => status = "no_token"

\* A timer tick ran a check without the credential.
C1_Witness ==
  ~GITHUB_TOKEN /\ ev.op = "tick" /\ status = "no_token" /\ ~isLoading

\* C2: once a poll check of the Starter's execution has set status to running,
\* that execution makes no further wait and no further check invocation.
C2_EarlyExit ==
  sawRunning =>
    /\ spc # "wait"
    /\ ~(spc = "check" /\ cpc[StarterCheck] # "idle")

\* C3: a Starter execution in which a poll check set status to running has issued
\* exactly one console request when it finishes.
C3_ConsoleOnce ==
  (spc = "idle" /\ sawRunning) => consoles = 1

\* C4: the poll loop makes at most 30 check invocations, each preceded by one
\* wait of its own, and it goes on to another wait only while no check of the
\* execution has observed running.
C4_BoundedPoll ==
  /\ polls <= MaxAttempts
  /\ waits <= MaxAttempts
  /\ waits = polls + (IF spc = "wait" THEN 1 ELSE 0)
  /\ (spc = "wait" /\ polls > 0) => ~sawRunning

\* C5: the starting flag is true exactly while a Starter execution is between
\* its precondition check and its exit: true at every request it is suspended
\* at, and false once it has left, by whatever path.
C5_StartingFlag == isStarting <=> (spc # "idle")

\* The Starter has left by the timeout path, after its 30th check.
C5_Witness ==
  /\ ev.op = "next-attempt"
  /\ spc = "idle"
  /\ polls = MaxAttempts
  /\ ~isStarting

\* C6: a Starter invoked while no sandbox id is recorded sets status to error,
\* issues no request and does not enter its execution.
C6_NoIdNoNetwork ==
  (ev.op \in {"start-refused", "start-request"} /\ codespaceId = "") =>
    /\ ev.op = "start-refused"
    /\ status = "error"
    /\ sent = {}
    /\ spc = "idle"
    /\ ~isStarting
    /\ polls = 0
    /\ consoles = 0

\* The start button was clicked with no id recorded.
C6_Witness ==
  ev.op = "start-refused" /\ codespaceId = "" /\ GITHUB_TOKEN /\ status = "error"

\* C7: a check that finds a running sandbox records the URL
\* https://{name}-8080.app.github.dev and probes it; a probe that returns ok ends
\* the check with status running, one that returns not ok or throws ends it with
\* status app_not_running.
C7_RunningProbe ==
  /\ (ev.op = "found" /\ ev.cs.state = "running") =>
       /\ ev.cs.name = "cs1" => codespaceUrl = "https://cs1-8080.app.github.dev"
       /\ ev.cs.name = "cs2" => codespaceUrl = "https://cs2-8080.app.github.dev"
       /\ sent = {"health"}
       /\ cpc[ev.c] = "health"
  /\ ev.op = "health-ok" => (status = "running" /\ cpc[ev.c] = "idle")
  /\ ev.op \in {"health-nonok", "health-throws"} =>
       (status = "app_not_running" /\ cpc[ev.c] = "idle")

\* A probe of cs2 has just returned ok.
C7_Witness ==
  /\ ev.op = "health-ok"
  /\ status = "running"
  /\ codespaceUrl = "https://cs2-8080.app.github.dev"

\* C8: a check that finds a sandbox in a state other than running ends with that
\* state as the status, issues no probe and records the sandbox's id.
C8_RawState ==
  (ev.op = "found" /\ ev.cs.state # "running") =>
    /\ status = ev.cs.state
    /\ sent = {}
    /\ cpc[ev.c] = "idle"
    /\ codespaceId = ev.cs.id

\* A check has just found a sandbox in a state the tag set does not list.
C8_Witness ==
  /\ ev.op = "found"
  /\ ev.cs.state = "Shutdown"
  /\ status = "Shutdown"
  /\ codespaceId = "id-cs1"

\* C9: the status is always one of the eight declared tags.
C9_ClosedTagSet == status \in CodespaceStatus

\* The elements of the list l whose repository is the target's.
Matching(l) == {i \in 1..Len(l) : l[i].repository.name = REPO_NAME}

\* C10: against a list with no sandbox of the target repository the check ends
\* with status not_found and issues no probe; against any other list the sandbox
\* it finds is the one at the least matching index.
C10_FirstMatch ==
  (remote.fixed /\ ev.op \in {"no-match", "found"}) =>
    IF Matching(remote.list) = {}
    THEN /\ ev.op = "no-match"
         /\ status = "not_found"
         /\ sent = {}
         /\ cpc[ev.c] = "idle"
    ELSE /\ ev.op = "found"
         /\ \E i \in Matching(remote.list) :
              /\ \A j \in Matching(remote.list) : i <= j
              /\ ev.cs = remote.list[i]

\* A list of two sandboxes of another repository was answered with not_found.
C10_Witness ==
  /\ remote.fixed
  /\ Len(remote.list) = 2
  /\ Matching(remote.list) = {}
  /\ ev.op = "no-match"
  /\ status = "not_found"

\* The start button's statuses (page.tsx:260).
Startable == {"stopped", "error", "app_not_running"}

\* C11: the start button is rendered exactly when the panel is not loading, the
\* credential is present and the status is stopped, error or app_not_running; a
\* click on it runs the Starter exactly when, besides, the starting flag is
\* false; the open-application link is rendered exactly when the panel is not
\* loading, the credential is present and the status is running.
C11_ViewActions ==
  /\ StartOffered <=> (~isLoading /\ GITHUB_TOKEN /\ status \in Startable)
  /\ OpenLinkOffered <=> (~isLoading /\ GITHUB_TOKEN /\ status = "running")
  /\ mounted = "yes" =>
       (CanClick <=>
          (~isLoading /\ GITHUB_TOKEN /\ status \in Startable /\ ~isStarting))
  /\ isStarting => ~CanClick

\* The start button is on screen and accepts a click: the application is down.
C11_Witness ==
  /\ mounted = "yes"
  /\ status = "app_not_running"
  /\ StartOffered
  /\ ~OpenLinkOffered
  /\ CanClick

\* The Starter has just left its loop by the limit.
TimedOut == ev.op = "next-attempt" /\ attempts = MaxAttempts

\* C12: a Starter execution whose 30 iterations have elapsed ends with status
\* error, written by its last step, has issued no console request and has
\* cleared the starting flag.
C12_Timeout ==
  TimedOut =>
    /\ status = "error"
    /\ spc = "idle"
    /\ ~isStarting
    /\ polls = MaxAttempts
    /\ consoles = 0
    /\ sent = {}

\* The 30 iterations elapsed and none of the checks ended in running.
C12_Witness ==
  TimedOut /\ ~sawRunning /\ status = "error" /\ waits = MaxAttempts

\* C13: a start request that throws or returns a response that is not ok ends
\* the Starter with status error and the starting flag cleared, with no wait, no
\* poll check and no console request made.
C13_StartRejected ==
  ev.op \in {"start-throws", "start-nonok"} =>
    /\ status = "error"
    /\ spc = "idle"
    /\ ~isStarting
    /\ waits = 0
    /\ polls = 0
    /\ consoles = 0
    /\ sent = {}

\* The API has just refused to start the sandbox.
C13_Witness ==
  ev.op = "start-nonok" /\ status = "error" /\ codespaceId # "" /\ ~isStarting

ListFailures == {"list-throws", "list-nonok", "list-json"}

\* C15: a list request that throws, returns a response that is not ok or does
\* not parse ends the check with status error and the loading flag false; the
\* failure stays in the check: a Starter that awaited it is still in its loop.
\* A start request that fails ends the Starter with status error.
C15_FailuresCaught ==
  /\ ev.op \in ListFailures =>
       /\ status = "error"
       /\ ~isLoading
       /\ cpc[ev.c] = "idle"
  /\ (ev.op \in ListFailures /\ ev.c = StarterCheck) =>
       /\ spc = "check"
       /\ isStarting
  /\ ev.op \in {"start-throws", "start-nonok"} =>
       /\ status = "error"
       /\ spc = "idle"

\* A poll check of the Starter has just failed to parse its list.
C15_Witness ==
  /\ ev.op = "list-json"
  /\ ev.c = StarterCheck
  /\ status = "error"
  /\ spc = "check"
  /\ attempts > 0

\* C16: the mount and every tick start a check invocation (with the credential,
\* its list request); while the component is mounted a tick can come whenever a
\* timer-driven invocation is free; after teardown no tick starts one.
C16_TimerChecks ==
  /\ mounted = "gone" => ev.op \notin {"mount", "tick"}
  /\ (ev.op \in {"mount", "tick"} /\ GITHUB_TOKEN) =>
       /\ cpc[ev.c] = "list"
       /\ sent = {"list"}
       /\ isLoading
  /\ (mounted = "yes" /\ \E c \in TimerChecks : cpc[c] = "idle") => CanTick
  /\ mounted = "gone" => ~CanTick

\* A timer-driven invocation that was in flight at teardown has written since.
C16_Witness ==
  /\ mounted = "gone"
  /\ ev.op = "health-ok"
  /\ ev.c \in TimerChecks
  /\ status = "running"
  /\ ~isLoading

\* C17: the Starter writes its timeout error only when no poll check of the
\* execution ended in running.
C17_NoErrorAfterRunning == TimedOut => ~sawRunning

\* C18: the loading flag is true whenever a check invocation is in flight.
C18_LoadingWhileInFlight == (\E c \in Checks : cpc[c] # "idle") => isLoading

\* C19: while a Starter execution is in progress a click cannot start another.
C19_OneStarter == spc # "idle" => ~CanClick

\* The start button is on screen while the Starter's own check is in flight.
C19_Witness ==
  /\ spc = "check"
  /\ cpc[StarterCheck] # "idle"
  /\ mounted = "yes"
  /\ StartOffered
  /\ ~CanClick

\* C20: a step that makes the status running leaves the URL and the id
\* recorded; a recorded URL or id is never cleared; and only a step in which a
\* check finds the sandbox changes either.
C20_RecordedKept ==
  [][/\ status' = "running" => (codespaceUrl' # "" /\ codespaceId' # "")
     /\ codespaceUrl # "" => codespaceUrl' # ""
     /\ codespaceId # "" => codespaceId' # ""
     /\ ev'.op # "found" => UNCHANGED <<codespaceUrl, codespaceId>>]_vars

\* A check has ended in not_found with a URL and an id recorded before.
C20_Witness ==
  /\ ev.op = "no-match"
  /\ status = "not_found"
  /\ codespaceUrl # ""
  /\ codespaceId # ""

\* C14: an invocation that has been overtaken (a later one started after it,
\* read a later list and is over) still writes when its probe settles: the
\* status it leaves is the one it derived, and the loading flag is cleared.
C14_LastWriteWins ==
  ev.stale =>
    /\ ev.op \in {"health-ok", "health-nonok", "health-throws"}
    /\ status = (IF ev.op = "health-ok" THEN "running" ELSE "app_not_running")
    /\ cpc[ev.c] = "idle"
    /\ ~isLoading

\* A timer-driven invocation found the sandbox running; a poll check of the
\* Starter, started later, found no sandbox and ended; the probe of the first
\* then returned ok and its status running replaced the later not_found.
C14_Witness ==
  /\ ev.stale
  /\ ev.c \in TimerChecks
  /\ ev.op = "health-ok"
  /\ status = "running"
  /\ spc = "check"
  /\ cpc[StarterCheck] = "idle"

====
